---- MODULE Spec2Model ----
(***************************************************************************)
(* A model of sharepoint_weekly.py: the weekly run that copies a           *)
(* SharePoint folder, waits for the copy, renames the files of the new     *)
(* folder, patches the date on slide 1 of its presentations and mails a    *)
(* link.  Text (file names, labels, slide text) is a sequence of           *)
(* characters, each character a one-element string; "LF" stands for the    *)
(* line feed, "ENDASH" and "EMDASH" for the two long dashes.  A date is    *)
(* its proleptic Gregorian ordinal (datetime.toordinal()).                 *)
(***************************************************************************)
EXTENDS Integers, Sequences, FiniteSets, TLC

\* ------------------------------------------------------------------ bounds

\* First day of the window of start dates: 739491 is Thursday 2025-08-28.
FirstOrdinal == 739491
\* Number of consecutive start dates of a run (Thursday, Friday, Saturday).
DateSpan == 2
\* Number of consecutive input dates of the _next_friday specification.
FridaySpan == 70
\* How many midnights (Europe/Madrid) may pass between two clock readings.
MaxDayAdvance == 1

\* ---------------------------------------------------------------- characters

UPPER == <<"A","B","C","D","E","F","G","H","I","J","K","L","M",
           "N","O","P","Q","R","S","T","U","V","W","X","Y","Z">>
LOWER == <<"a","b","c","d","e","f","g","h","i","j","k","l","m",
           "n","o","p","q","r","s","t","u","v","w","x","y","z">>
DIGITS == <<"0","1","2","3","4","5","6","7","8","9">>

Range(s) == {s[k] : k \in DOMAIN s}

UPPERS == Range(UPPER)
ToLower == [c \in UPPERS |-> LOWER[CHOOSE k \in DOMAIN UPPER : UPPER[k] = c]]

\* str.lower() on one character
LowerChar(c) == IF c \in UPPERS THEN ToLower[c] ELSE c

\* str.lower()
Lower(s) == [k \in DOMAIN s |-> LowerChar(s[k])]

\* str.endswith
EndsWith(s, suffix) ==
  /\ Len(s) >= Len(suffix)
  /\ SubSeq(s, Len(s) - Len(suffix) + 1, Len(s)) = suffix

\* f"{n:02d}" for 0 <= n
RECURSIVE DecimalStr(_)
DecimalStr(n) == IF n < 10 THEN <<DIGITS[n + 1]>>
                 ELSE DecimalStr(n \div 10) \o <<DIGITS[(n % 10) + 1]>>

Fmt02d(n) == IF n < 10 THEN <<"0">> \o DecimalStr(n) ELSE DecimalStr(n)

\* ------------------------------------------------------------------ calendar

DAYS_IN_MONTH == <<31, 28, 31, 30, 31, 30, 31, 31, 30, 31, 30, 31>>

IsLeap(y) == (y % 4 = 0) /\ ((y % 100 # 0) \/ (y % 400 = 0))

DaysInMonth(y, m) == IF m = 2 /\ IsLeap(y) THEN 29 ELSE DAYS_IN_MONTH[m]

DaysInYear(y) == IF IsLeap(y) THEN 366 ELSE 365

\* days before January 1st of year y (ordinal of that day minus one)
DaysBeforeYear(y) ==
  LET p == y - 1 IN p * 365 + (p \div 4) - (p \div 100) + (p \div 400)

RECURSIVE MonthOf(_, _, _)
\* month and day of the n-th day (n >= 1) of year y, trying month m onwards
MonthOf(y, m, n) ==
  IF n <= DaysInMonth(y, m) THEN [month |-> m, day |-> n]
  ELSE MonthOf(y, m + 1, n - DaysInMonth(y, m))

\* datetime.year / .month / .day of the date with ordinal o
YMD(o) ==
  LET y == CHOOSE c \in (((o - 1) \div 366) + 1) .. (((o - 1) \div 365) + 1) :
             DaysBeforeYear(c) < o /\ o <= DaysBeforeYear(c) + DaysInYear(c)
      md == MonthOf(y, 1, o - DaysBeforeYear(y))
  IN [year |-> y, month |-> md.month, day |-> md.day]

\* datetime.weekday(): Monday = 0 ... Sunday = 6
Weekday(o) == (o + 6) % 7

\* -------------------------------------------------------------- _next_friday

\* A variant that keeps a Friday input: the days_ahead == 0 branch dropped.
NextFridaySameDay(dt) == dt + ((4 - Weekday(dt)) % 7)

\* _next_friday(dt): the date part; the time of day is carried over unchanged
NextFriday(dt) ==
  LET days_ahead == (4 - Weekday(dt)) % 7
  IN IF days_ahead = 0 THEN dt + 7 ELSE dt + days_ahead

\* ------------------------------------------------------- labels of the week

MONTH_ABBR == << <<"J","a","n">>, <<"F","e","b">>, <<"M","a","r">>,
                 <<"A","p","r">>, <<"M","a","y">>, <<"J","u","n">>,
                 <<"J","u","l">>, <<"A","u","g">>, <<"S","e","p">>,
                 <<"O","c","t">>, <<"N","o","v">>, <<"D","e","c">> >>

\* today_strings() when the clock reads the date `now`
TodayStrings(now) ==
  LET target == YMD(NextFriday(now))
      day2 == Fmt02d(target.day)
      mon_abbr == MONTH_ABBR[target.month]
  IN [folder |-> <<"W",".","E","."," ">> \o mon_abbr \o <<" ">> \o day2
                   \o <<" ">> \o DecimalStr(target.year),
      file_prefix |-> day2 \o <<" ">> \o mon_abbr]

\* today_slide_date(prefer_sept_with_t = True) when the clock reads `now`
TodaySlideDate(now) ==
  LET target == YMD(NextFriday(now))
      day == Fmt02d(target.day)
      mon == IF MONTH_ABBR[target.month] = <<"S","e","p">>
             THEN <<"S","e","p","t">> ELSE MONTH_ABBR[target.month]
  IN day \o <<" ">> \o mon \o <<" ">> \o DecimalStr(target.year)

\* ------------------------------------------------------ regular expressions
\* A pattern of the re module is a sequence of items: a character class with
\* a repetition ("rep": min..max times, max < 0 for no limit, greedy or lazy)
\* or a zero-width assertion ("bol" for ^, "eol" for $, "wb" for \b).  The
\* patterns of the program are all compiled with (?i), so a class holds
\* lower-case characters and is compared with the lower-cased input.

WS == {" ", "TAB", "LF", "CR"}
ALPHA == Range(LOWER)
DIGIT == Range(DIGITS)
DASHES == {"-", "ENDASH", "EMDASH"}

Rep(chars, neg, min, max, lazy) ==
  [k |-> "rep", chars |-> chars, neg |-> neg, min |-> min, max |-> max, lazy |-> lazy]
One(c) == Rep({c}, FALSE, 1, 1, FALSE)
Opt(chars) == Rep(chars, FALSE, 0, 1, FALSE)
Star(chars) == Rep(chars, FALSE, 0, -1, FALSE)
Plus(chars) == Rep(chars, FALSE, 1, -1, FALSE)
BOL == [k |-> "bol"]
EOL == [k |-> "eol"]
WB == [k |-> "wb"]

InClass(it, c) == (LowerChar(c) \in it.chars) # it.neg

WORD == ALPHA \cup DIGIT \cup {"_"}

\* \w
IsWord(c) == LowerChar(c) \in WORD

\* does the zero-width assertion `it` hold in s after p characters
Holds(it, s, p) ==
  CASE it.k = "bol" -> p = 0
    [] it.k = "eol" -> p = Len(s) \/ (p = Len(s) - 1 /\ s[Len(s)] = "LF")
    [] it.k = "wb" -> (p > 0 /\ IsWord(s[p])) # (p < Len(s) /\ IsWord(s[p + 1]))

Min2(a, b) == IF a < b THEN a ELSE b

RECURSIVE Run(_, _, _, _)
\* the length of the run of characters of the class of `it` in s after p
\* characters, at most lim long
Run(it, s, p, lim) ==
  IF lim = 0 \/ ~InClass(it, s[p + 1]) THEN 0 ELSE 1 + Run(it, s, p + 1, lim - 1)

\* the most repetitions of `it` that fit in s after p characters
RunLen(it, s, p) ==
  Run(it, s, p, IF it.max < 0 THEN Len(s) - p ELSE Min2(it.max, Len(s) - p))

RECURSIVE MatchFrom(_, _, _, _)
RECURSIVE TryCount(_, _, _, _, _, _)
\* The backtracking match of items i.. of `re` in s after p characters: <<>>
\* when there is none, else the position before each item i.. and the end.
MatchFrom(re, i, s, p) ==
  IF i > Len(re) THEN <<p>>
  ELSE IF re[i].k = "rep"
    THEN LET run == RunLen(re[i], s, p)
         IN IF run < re[i].min THEN <<>>
            ELSE TryCount(re, i, s, p, IF re[i].lazy THEN re[i].min ELSE run, run)
    ELSE IF Holds(re[i], s, p)
      THEN LET r == MatchFrom(re, i + 1, s, p)
           IN IF r = <<>> THEN <<>> ELSE <<p>> \o r
      ELSE <<>>

TryCount(re, i, s, p, c, run) ==
  LET r == MatchFrom(re, i + 1, s, p + c)
  IN IF r # <<>> THEN <<p>> \o r
     ELSE IF re[i].lazy
       THEN (IF c < run THEN TryCount(re, i, s, p, c + 1, run) ELSE <<>>)
       ELSE (IF c > re[i].min THEN TryCount(re, i, s, p, c - 1, run) ELSE <<>>)

\* the text matched by items a..b of a match m (a group of the pattern)
Group(s, m, a, b) == SubSeq(s, m[a] + 1, m[b + 1])

\* --------------------------------------------------------------- file names

\* str.rfind(c) + 1: the last index of c in s, 0 when absent
RFind(s, c) ==
  IF \E k \in DOMAIN s : s[k] = c
  THEN CHOOSE k \in DOMAIN s : s[k] = c /\ \A j \in (k + 1)..Len(s) : s[j] # c
  ELSE 0

\* os.path.splitext (posixpath)
SplitExt(p) ==
  LET sepIndex == RFind(p, "/")
      dotIndex == RFind(p, ".")
  IN IF dotIndex > sepIndex /\ \E k \in (sepIndex + 1)..(dotIndex - 1) : p[k] # "."
     THEN [base |-> SubSeq(p, 1, dotIndex - 1), ext |-> SubSeq(p, dotIndex, Len(p))]
     ELSE [base |-> p, ext |-> <<>>]

PREFIX_RE ==
  << BOL, Star(WS),
     Rep(DIGIT, FALSE, 1, 2, FALSE),
     Plus(WS),
     Rep(ALPHA, FALSE, 3, 9, FALSE), Opt({"."}),
     Star(WS),
     Rep(DASHES, FALSE, 1, 1, FALSE),
     Plus(WS),
     Rep({"LF"}, TRUE, 1, -1, TRUE),
     Star(WS), EOL >>

\* build_new_filename(original_name, new_prefix)
BuildNewFilename(original_name, new_prefix) ==
  LET se == SplitExt(original_name)
      m == MatchFrom(PREFIX_RE, 1, se.base, 0)
  IN IF m # <<>>
     THEN new_prefix \o <<" ", "-", " ">> \o Group(se.base, m, 10, 10) \o se.ext
     ELSE new_prefix \o <<" ", "-", " ">> \o se.base \o se.ext

\* a candidate with the suffix put after the extension
CandidateAfterExt(new_name, n) ==
  new_name \o (IF n = 0 THEN <<>> ELSE <<" ", "(">> \o DecimalStr(n) \o <<")">>)

\* the candidate name of attempt n of rename_item_with_collision_retry
Candidate(new_name, n) ==
  LET se == SplitExt(new_name)
  IN se.base \o (IF n = 0 THEN <<>> ELSE <<" ", "(">> \o DecimalStr(n) \o <<")">>)
       \o se.ext

\* ----------------------------------------------------------- slide text

DATE_ITEMS ==
  << Rep(DIGIT, FALSE, 1, 2, FALSE), Plus(WS), Rep(ALPHA, FALSE, 3, 9, FALSE),
     Opt({"."}), Plus(WS), Rep(DIGIT, FALSE, 4, 4, FALSE), WB >>

\* each pattern with the number of its last item of group 1 (the lead-in)
WEEK_ENDING_PATTERNS ==
  << [re |-> << WB, One("w"), Opt({"."}), Star(WS), One("e"), Opt({"."}),
                Star(WS), Opt({":", "-"}), Star(WS) >> \o DATE_ITEMS,
      lead |-> 9],
     [re |-> << WB, One("w"), One("e"), One("e"), One("k"), Star(WS),
                One("e"), One("n"), One("d"), One("i"), One("n"), One("g"),
                Star(WS), Opt({":", "-"}), Star(WS) >> \o DATE_ITEMS,
      lead |-> 15] >>

RECURSIVE SubnDroppingLead(_, _, _, _, _, _)
\* a substitution whose template leaves out \g<1>: the lead-in is lost
SubnDroppingLead(rx, label, s, p, out, cnt) ==
  IF p >= Len(s) THEN [text |-> out, n |-> cnt]
  ELSE LET m == MatchFrom(rx.re, 1, s, p)
       IN IF m # <<>>
          THEN SubnDroppingLead(rx, label, s, m[Len(m)], out \o label, cnt + 1)
          ELSE SubnDroppingLead(rx, label, s, p + 1, Append(out, s[p + 1]), cnt)

RECURSIVE SubnFrom(_, _, _, _, _, _)
\* rx.subn(rf"\g<1>{label}", s) from p characters on, `out` being the text
\* built and `cnt` the matches replaced so far: the text and the count
SubnFrom(rx, label, s, p, out, cnt) ==
  IF p >= Len(s) THEN [text |-> out, n |-> cnt]
  ELSE LET m == MatchFrom(rx.re, 1, s, p)
       IN IF m # <<>>
          THEN SubnFrom(rx, label, s, m[Len(m)],
                        out \o Group(s, m, 2, rx.lead) \o label, cnt + 1)
          ELSE SubnFrom(rx, label, s, p + 1, Append(out, s[p + 1]), cnt)

RECURSIVE ReplaceLoop(_, _, _, _)
\* lines 250-254: the loop over the patterns
ReplaceLoop(k, new_text, changed, label) ==
  IF k > Len(WEEK_ENDING_PATTERNS) THEN [text |-> new_text, changed |-> changed]
  ELSE LET r == SubnFrom(WEEK_ENDING_PATTERNS[k], label, new_text, 0, <<>>, 0)
       IN IF r.n > 0 THEN ReplaceLoop(k + 1, r.text, TRUE, label)
          ELSE ReplaceLoop(k + 1, new_text, changed, label)

\* replace_week_ending_text(text, new_date_label)
ReplaceWeekEndingText(text, new_date_label) ==
  ReplaceLoop(1, text, FALSE, new_date_label)

\* ------------------------------------------------------------ presentations
\* The bytes of a .pptx file are modelled by what python-pptx reads from them:
\* whether they parse at all, and the slides, each a sequence of shapes, each
\* shape with or without a text frame and the text of its paragraphs joined
\* by line feeds.

Shape(text) == [tf |-> TRUE, text |-> text]
Picture == [tf |-> FALSE, text |-> <<>>]

\* an edit that saves the presentation whether or not a shape changed
UpdatePptxAlwaysSaves(ppt_bytes, new_date_label) ==
  [bytes |-> ppt_bytes, changed |-> TRUE]

RECURSIVE ShapesLoop(_, _, _, _, _)
\* lines 305-318: the loop over the shapes s[k..] of slide 1, `out` being the
\* shapes as rewritten so far: the shapes of the slide and changed_any
ShapesLoop(s, k, out, changed_any, new_date_label) ==
  IF k > Len(s) THEN [shapes |-> out, changed_any |-> changed_any]
  ELSE IF ~s[k].tf THEN ShapesLoop(s, k + 1, Append(out, s[k]), changed_any, new_date_label)
  ELSE LET r == ReplaceWeekEndingText(s[k].text, new_date_label)
       IN IF r.changed
          THEN ShapesLoop(s, k + 1, Append(out, Shape(r.text)), TRUE, new_date_label)
          ELSE ShapesLoop(s, k + 1, Append(out, s[k]), changed_any, new_date_label)

\* update_pptx_first_slide_date(ppt_bytes, new_date_label), for bytes that parse
UpdatePptxFirstSlideDate(ppt_bytes, new_date_label) ==
  IF Len(ppt_bytes.slides) = 0 THEN [bytes |-> ppt_bytes, changed |-> FALSE]
  ELSE LET r == ShapesLoop(ppt_bytes.slides[1], 1, <<>>, FALSE, new_date_label)
       IN IF ~r.changed_any THEN [bytes |-> ppt_bytes, changed |-> FALSE]
          ELSE [bytes |-> [ppt_bytes EXCEPT !.slides[1] = r.shapes], changed |-> TRUE]

\* ------------------------------------------------------------ HTTP statuses

\* the statuses the service may answer with
Statuses == {200, 409, 500}

\* a response taken for a success whatever its status
OkAny(status) == TRUE

\* requests.Response.ok
Ok(status) == status < 400

\* the check of gpost, copy_folder_with_name and the chunk PUT
PostOk(status) == status \in {200, 201, 202}

\* -------------------------------------------------------- program constants

\* poll_until_child_exists(timeout_s = 1200, poll_s = 4)
timeout_s == 1200
poll_s == 4
\* rename_item_with_collision_retry(max_tries = 5)
max_tries == 5
\* upload_item_bytes: chunk = 5 * 1024 * 1024
chunk == 5 * 1024 * 1024

\* ------------------------------------------------------------------- bounds

\* the longest a children request of the poll may take, in seconds
MaxLatency == 1
\* the number of children of the new folder
MaxChildren == 2
\* the number of items the service returns per page of a children listing
PageSize == 1
\* the largest content uploaded, in whole chunks (plus a remainder)
MaxChunks == 1

\* -------------------------------------------------------------------- state

VARIABLES
  pc,               \* the statement of main() about to run
  err,              \* the exception that ended main(), "none" while there is none
  exitcode,         \* the exit status of the process, -1 while it runs
  logged,           \* has the handler of __main__ logged "ERROR: ..."
  today,            \* the date in Europe/Madrid when the run starts
  new_folder_name,  \* main: new_folder_name
  file_prefix,      \* main: file_prefix
  target_label,     \* update_pptx_dates_in_folder: target_label
  parent,           \* service: the children of the parent of the source folder
  copy,             \* service: the copy job ("none", "pending", "done")
  remote,           \* service: the children of the folder the run works on
  elapsed,          \* poll_until_child_exists: time.time() - t0 at the loop test (0 outside)
  new_folder_item,  \* main: new_folder_item
  acc,              \* list_children: items
  children,         \* main: children
  i,                \* main: the index in children of the rename loop
  renamed,          \* main: renamed
  new_name,         \* rename_item_with_collision_retry: new_name
  n,                \* rename_item_with_collision_retry: n
  tried,            \* history: the rename requests for the current file, with their answers
  items,            \* update_pptx_dates_in_folder: items
  j,                \* update_pptx_dates_in_folder: the index in items of the loop
  updated,          \* update_pptx_dates_in_folder: updated
  nb,               \* update_pptx_dates_in_folder: nb, the bytes to upload
  size,             \* upload_item_bytes: size
  off,              \* upload_item_bytes: i
  chunks,           \* history: the ranges <<i, j - 1, size>> put in the current upload
  outcome,          \* history: what the patch loop did with each file it handled
  sessions,         \* history: the ids of the items an upload session was created for
  lastOp,           \* history: the latest remote call
  lastStatus,       \* history: the status it was answered with
  issued,           \* history: the kinds of remote calls made so far
  ncopy,            \* history: the number of copy requests
  nmail,            \* history: the number of sendMail requests
  fin,              \* the input of the function under study (function specifications)
  fout              \* its result

exitv == <<err, exitcode, logged>>
clockv == <<today, new_folder_name, file_prefix, target_label>>
servv == <<parent, copy, remote>>
pollv == <<elapsed, new_folder_item>>
renv == <<children, i, renamed, new_name, n, tried>>
patchv == <<items, j, updated, nb, size, off, chunks, outcome, sessions>>
histv == <<lastOp, lastStatus, issued, ncopy, nmail>>
fnv == <<fin, fout>>
vars == <<pc, exitv, clockv, servv, pollv, acc, renv, patchv, histv, fnv>>

\* --------------------------------------------------------------- the service

\* An item as the listings return it ($select=id,name,folder,file).
NoItem == [id |-> "none", name |-> <<>>, kind |-> "none"]
Folder(id, name) == [id |-> id, name |-> name, kind |-> "folder"]
File(id, name) == [id |-> id, name |-> name, kind |-> "file"]

NoDoc == [parses |-> FALSE, slides |-> <<>>]

\* "W.E. Aug 22 2025", the source folder
SourceName == <<"W",".","E","."," ","A","u","g"," ","2","2"," ","2","0","2","5">>

WeLabel == <<"W",".","E","."," ","5"," ","S","e","p","t"," ","2","0","2","5">>

\* presentations: a label on slide 1; none; a label on slide 2 only; no
\* slide; a label in a second shape of slide 1; bytes that do not parse
DocMatch == [parses |-> TRUE, slides |-> << <<Shape(WeLabel)>> >>]
DocPlain == [parses |-> TRUE, slides |-> << <<Shape(<<"Q","3">>), Picture>> >>]
DocSecond == [parses |-> TRUE, slides |-> << <<Shape(<<"Q","3">>)>>, <<Shape(WeLabel)>> >>]
DocEmpty == [parses |-> TRUE, slides |-> <<>>]
DocTwo == [parses |-> TRUE,
           slides |-> << <<Picture, Shape(<<"Q","3","LF">> \o WeLabel)>> >>]
DocBad == [parses |-> FALSE, slides |-> <<>>]

\* the items a copied folder may hold, given the file prefix of the run
Catalogue(prefix) ==
  << File("f1", <<"1","1"," ","A","p","r"," ","-"," ","A",".","p","p","t","x">>),
     File("f2", <<"B",".","P","P","T","X">>),
     Folder("d3", <<"S","u","b">>),
     File("f4", prefix \o <<" ","-"," ","C",".","p","p","t","x">>),
     File("f5", <<"5"," ","S","e","p","t","."," ","ENDASH"," ","n",".","t","x","t">>),
     File("f6", <<"D",".","p","p","t","x">>),
     File("f7", <<"2"," ","M","a","y"," ","-"," ","E",".","p","p","t","x">>),
     File("f8", <<"F",".","p","p","t","x">>) >>

\* the bytes each file of the catalogue holds when the folder is copied
Original(id) ==
  CASE id = "f1" -> DocMatch
    [] id = "f2" -> DocPlain
    [] id = "f4" -> DocBad
    [] id = "f6" -> DocSecond
    [] id = "f7" -> DocTwo
    [] id = "f8" -> DocEmpty
    [] OTHER -> NoDoc

\* the folders considered: MaxChildren consecutive items of the catalogue, or none
Listings(prefix) ==
  LET cat == Catalogue(prefix)
  IN {<<>>} \cup
     { [k \in 1..MaxChildren |-> cat[((a + k - 2) % Len(cat)) + 1]] : a \in DOMAIN cat }

\* the sizes of the content uploaded
UploadSizes == {1, chunk} \cup {c * chunk + 1 : c \in 1..MaxChunks}

\* -------------------------------------------------------------- start state

StartDates == FirstOrdinal .. (FirstOrdinal + DateSpan - 1)

\* the children of the parent the service returns in one page
ParentPage == 3

\* "W.E. Aug 15 2025" and "W.E. Aug 08 2025", folders of earlier weeks
EarlierName == <<"W",".","E","."," ","A","u","g"," ","1","5"," ","2","0","2","5">>
EarliestName == <<"W",".","E","."," ","A","u","g"," ","0","8"," ","2","0","2","5">>

\* the parent folder at the start: the source folder and a sibling named like
\* the new folder but in lower case; then nothing more, or a sibling that
\* already carries the name of the new folder, or the folders of two earlier
\* weeks, which fill the first page of the listing and more
Parents(d) ==
  { <<Folder("src", SourceName), Folder("near", Lower(TodayStrings(d).folder))>>,
    <<Folder("src", SourceName), Folder("near", Lower(TodayStrings(d).folder)),
      Folder("old", TodayStrings(d).folder)>>,
    <<Folder("src", SourceName), Folder("near", Lower(TodayStrings(d).folder)),
      Folder("w2", EarlierName), Folder("w1", EarliestName)>> }

InitProgram ==
  /\ err = "none" /\ exitcode = -1 /\ logged = FALSE
  /\ new_folder_name = <<>> /\ file_prefix = <<>> /\ target_label = <<>>
  /\ copy = "none" /\ remote = <<>>
  /\ elapsed = 0 /\ new_folder_item = NoItem
  /\ acc = <<>>
  /\ children = <<>> /\ i = 0 /\ renamed = 0 /\ new_name = <<>> /\ n = 0 /\ tried = <<>>
  /\ items = <<>> /\ j = 0 /\ updated = 0 /\ nb = NoDoc /\ size = 0 /\ off = 0
  /\ chunks = <<>> /\ outcome = <<>> /\ sessions = {}
  /\ lastOp = "none" /\ lastStatus = 0 /\ issued = {} /\ ncopy = 0 /\ nmail = 0

Init ==
  /\ pc = "require_env"
  /\ today \in StartDates
  /\ parent \in Parents(today)
  /\ InitProgram
  /\ fin = 0 /\ fout = 0

\* ------------------------------------------------------------------ helpers

\* a remote call of kind `op` was made and answered with `status`
Call(op, status) ==
  /\ lastOp' = op
  /\ lastStatus' = status
  /\ issued' = issued \cup {op}
  /\ ncopy' = IF op = "copy" THEN ncopy + 1 ELSE ncopy
  /\ nmail' = IF op = "mail" THEN nmail + 1 ELSE nmail

\* the handler with the log line left out
RaiseSilently(kind) ==
  /\ pc' = "exited"
  /\ err' = kind
  /\ exitcode' = 1
  /\ UNCHANGED logged

\* an exception leaves main() and reaches the handler of __main__ (lines
\* 592-594): the error is logged and the process exits with status 1
Raise(kind) ==
  /\ pc' = "exited"
  /\ err' = kind
  /\ logged' = TRUE
  /\ exitcode' = 1

\* main() returns (line 591) and the interpreter exits with status 0
Return ==
  /\ pc' = "exited"
  /\ exitcode' = 0
  /\ UNCHANGED <<err, logged>>

\* ------------------------------------------------ main(): up to the copy

STARTUP_ENV == <<"TENANT_ID", "CLIENT_ID", "CLIENT_SECRET", "SP_HOSTNAME",
                 "SP_SITE_PATH", "SP_LIBRARY_NAME", "SP_SOURCE_FOLDER_PATH">>
MAIL_ENV == <<"MAIL_SENDER_UPN", "MAIL_TO">>

\* require_env over `names` in turn: "ok", or the first name that is not set
RequireAll(names) == {"ok"} \cup Range(names)

\* lines 467-475: the seven settings read at the start
RequireEnv ==
  /\ pc = "require_env"
  /\ \E r \in RequireAll(STARTUP_ENV) :
       IF r = "ok" THEN pc' = "today_strings" /\ UNCHANGED exitv
       ELSE Raise(r)
  /\ UNCHANGED <<clockv, servv, pollv, acc, renv, patchv, histv, fnv>>

\* line 477: new_folder_name, file_prefix = today_strings()
TodayStringsStep ==
  /\ pc = "today_strings"
  /\ new_folder_name' = TodayStrings(today).folder
  /\ file_prefix' = TodayStrings(today).file_prefix
  /\ pc' = "get_token"
  /\ UNCHANGED <<today, target_label, exitv, servv, pollv, acc, renv, patchv, histv, fnv>>

\* line 478: get_token_app_only
GetToken ==
  /\ pc = "get_token"
  /\ \E st \in Statuses :
       /\ Call("token", st)
       /\ IF st = 200 THEN pc' = "resolve_site" /\ UNCHANGED exitv
          ELSE Raise("token")
  /\ UNCHANGED <<clockv, servv, pollv, acc, renv, patchv, fnv>>

\* lines 480-482: resolve_site_id
ResolveSite ==
  /\ pc = "resolve_site"
  /\ \E st \in Statuses :
       /\ Call("site", st)
       /\ IF Ok(st) THEN pc' = "find_drive" /\ UNCHANGED exitv
          ELSE Raise("remote")
  /\ UNCHANGED <<clockv, servv, pollv, acc, renv, patchv, fnv>>

Drive(id, name, type) == [id |-> id, name |-> name, driveType |-> type]
Documents == <<"D","o","c","u","m","e","n","t","s">>
SharedDocuments == <<"S","h","a","r","e","d"," ">> \o Documents
Archive == <<"A","r","c","h","i","v","e">>

\* str.strip() of the white space of both ends
RECURSIVE Strip(_)
Strip(s) ==
  IF s = <<>> THEN s
  ELSE IF s[1] \in WS THEN Strip(Tail(s))
  ELSE IF s[Len(s)] \in WS THEN Strip(SubSeq(s, 1, Len(s) - 1))
  ELSE s

\* the id of the first drive of `drives` whose index is in `hits`, "none"
\* when there is none
FirstDrive(drives, hits) ==
  IF hits = {} THEN "none"
  ELSE drives[CHOOSE k \in hits : \A m \in hits : k <= m].id

\* a search that takes the first document library before it looks at names
FindDriveIdTypeFirst(drives, library_name) ==
  LET exact == {k \in DOMAIN drives : drives[k].name = library_name}
      doclib == {k \in DOMAIN drives : drives[k].driveType = "documentLibrary"}
  IN IF doclib # {} THEN FirstDrive(drives, doclib)
     ELSE FirstDrive(drives, exact)

\* find_drive_id: the id of the drive chosen, "none" when it raises
FindDriveId(drives, library_name) ==
  LET exact == {k \in DOMAIN drives : drives[k].name = library_name}
      alias == {k \in DOMAIN drives : Lower(drives[k].name) = Lower(Documents)}
      doclib == {k \in DOMAIN drives : drives[k].driveType = "documentLibrary"}
  IN IF exact # {} THEN FirstDrive(drives, exact)
     ELSE IF Lower(Strip(library_name)) = Lower(SharedDocuments) /\ alias # {}
       THEN FirstDrive(drives, alias)
     ELSE FirstDrive(drives, doclib)

\* the values of SP_LIBRARY_NAME and the answers to the drives request considered
LibraryNames == {Documents, SharedDocuments \o <<" ">>, Archive}
DriveLists ==
  { <<>>,
    <<Drive("b1", Archive, "business")>>,
    <<Drive("l1", Archive, "documentLibrary"), Drive("l2", Documents, "documentLibrary")>>,
    <<Drive("b1", <<"d","o","c","u","m","e","n","t","s">>, "business"),
      Drive("l1", Archive, "documentLibrary")>> }

\* lines 484-486: find_drive_id.  SP_LIBRARY_NAME is read once and used
\* here only, so its value is drawn here.
FindDrive ==
  /\ pc = "find_drive"
  /\ \E st \in Statuses, drives \in DriveLists, library \in LibraryNames :
       /\ Call("drives", st)
       /\ IF ~Ok(st) THEN Raise("remote")
          ELSE IF FindDriveId(drives, library) = "none" THEN Raise("drive_not_found")
          ELSE pc' = "get_source" /\ UNCHANGED exitv
  /\ UNCHANGED <<clockv, servv, pollv, acc, renv, patchv, fnv>>

\* lines 488-494: get_item_by_path and the folder test
GetSource ==
  /\ pc = "get_source"
  /\ \E st \in Statuses, is_folder \in BOOLEAN :
       /\ Call("source", st)
       /\ IF ~Ok(st) THEN Raise("remote")
          ELSE IF ~is_folder THEN Raise("not_folder")
          ELSE pc' = "copy" /\ UNCHANGED exitv
  /\ UNCHANGED <<clockv, servv, pollv, acc, renv, patchv, fnv>>

\* lines 496-497: copy_folder_with_name; on return the poll starts (t0 is read)
CopyFolder ==
  /\ pc = "copy"
  /\ \E st \in Statuses :
       /\ Call("copy", st)
       /\ IF PostOk(st)
          THEN pc' = "poll" /\ copy' = "pending" /\ elapsed' = 0 /\ UNCHANGED exitv
          ELSE Raise("remote") /\ UNCHANGED <<copy, elapsed>>
  /\ UNCHANGED <<clockv, parent, remote, new_folder_item, acc, renv, patchv, fnv>>

\* the service finishes the copy: the new folder becomes a child of the
\* parent, unless a sibling already carries its name
CopyCompletes ==
  /\ pc = "poll" /\ copy = "pending"
  /\ \A k \in DOMAIN parent : parent[k].name # new_folder_name
  /\ copy' = "done"
  /\ parent' = Append(parent, Folder("new", new_folder_name))
  /\ UNCHANGED <<pc, exitv, clockv, remote, pollv, acc, renv, patchv, histv, fnv>>

\* --------------------------------------------------------------- the poll

\* find_child_by_name, given the children the request returned
FindChildByName(listing, name) ==
  IF \E k \in DOMAIN listing : listing[k].name = name
  THEN listing[CHOOSE k \in DOMAIN listing :
         listing[k].name = name /\ \A m \in 1..(k - 1) : listing[m].name # name]
  ELSE NoItem

\* lines 150-151: the children find_child_by_name gets: one request, so the
\* first page of the listing and no more
FirstPage(listing) == SubSeq(listing, 1, Min2(ParentPage, Len(listing)))

\* a loop test that never gives up
PollingAlways(t) == TRUE

\* the test of the while loop of poll_until_child_exists
Polling(t) == t < timeout_s

\* lines 160-164: one turn of the loop: find_child_by_name, then return or sleep
PollIteration ==
  /\ pc = "poll" /\ Polling(elapsed)
  /\ \E st \in Statuses, lat \in 0..MaxLatency :
       /\ Call("poll", st)
       /\ IF ~Ok(st)
          THEN Raise("remote") /\ elapsed' = 0 /\ UNCHANGED <<new_folder_item, remote>>
          ELSE IF FindChildByName(FirstPage(parent), new_folder_name) # NoItem
          THEN /\ new_folder_item' = FindChildByName(FirstPage(parent), new_folder_name)
               /\ elapsed' = 0
               /\ remote' \in Listings(file_prefix)
               /\ pc' = "list_children"
               /\ UNCHANGED exitv
          ELSE /\ elapsed' = elapsed + lat + poll_s
               /\ UNCHANGED <<pc, exitv, new_folder_item, remote>>
  /\ UNCHANGED <<clockv, parent, copy, acc, renv, patchv, fnv>>

\* line 165: the loop test fails
PollTimeout ==
  /\ pc = "poll" /\ ~Polling(elapsed)
  /\ Raise("timeout")
  /\ elapsed' = 0
  /\ UNCHANGED <<clockv, servv, new_folder_item, acc, renv, patchv, histv, fnv>>

\* ------------------------------------------------------------ list_children

\* the page of `remote` that follows the items already fetched
Page(fetched) == SubSeq(remote, Len(fetched) + 1, Min2(Len(fetched) + PageSize, Len(remote)))

\* does that page carry an @odata.nextLink
HasNextLink(fetched) == Len(fetched) + PageSize < Len(remote)

\* line 504: children = list_children(...), one request per page
ListChildren ==
  /\ pc = "list_children"
  /\ \E st \in Statuses :
       /\ Call("list", st)
       /\ IF ~Ok(st) THEN Raise("remote") /\ UNCHANGED <<acc, renv>>
          ELSE IF HasNextLink(acc)
          THEN acc' = acc \o Page(acc) /\ UNCHANGED <<pc, exitv, renv>>
          ELSE /\ children' = acc \o Page(acc)
               /\ acc' = <<>>
               /\ i' = 1 /\ renamed' = 0
               /\ pc' = "rename_loop"
               /\ UNCHANGED <<exitv, new_name, n, tried>>
  /\ UNCHANGED <<clockv, servv, pollv, patchv, fnv>>

\* ------------------------------------------------------------ the rename loop

\* a test that takes every child for a file
IsFileAny(it) == TRUE

\* line 507: "file" in it
IsFile(it) == it.kind = "file"

\* lines 506-518: the head and the body of `for it in children`, up to the
\* call of rename_item_with_collision_retry (whose locals start afresh)
RenameLoop ==
  /\ pc = "rename_loop"
  /\ IF i > Len(children)
     THEN pc' = "patch_begin" /\ new_name' = <<>> /\ UNCHANGED i
     ELSE IF IsFile(children[i])
             /\ BuildNewFilename(children[i].name, file_prefix) # children[i].name
     THEN /\ new_name' = BuildNewFilename(children[i].name, file_prefix)
          /\ pc' = "rename_try"
          /\ UNCHANGED i
     ELSE /\ i' = i + 1
          /\ new_name' = <<>>
          /\ UNCHANGED pc
  /\ n' = 0 /\ tried' = <<>>
  /\ UNCHANGED <<children, renamed>>
  /\ UNCHANGED <<exitv, clockv, servv, pollv, acc, patchv, histv, fnv>>

\* the item `id` of the folder carries the name `name` from now on
Renamed(folder, id, name) ==
  [k \in DOMAIN folder |->
     IF folder[k].id = id THEN [folder[k] EXCEPT !.name = name] ELSE folder[k]]

\* a retry loop that tries again after any refusal
RetryOnAny(status) == ~Ok(status)

\* rename_item_with_collision_retry: is `status` the collision that is retried
RetryOn(status) == status = 409

\* a refusal after which the renames made so far are undone
RenameRefusedRollsBack ==
  /\ Raise("remote")
  /\ remote' = children
  /\ UNCHANGED <<renamed, i, n>>

\* a refusal that is logged and skipped: the loop of main goes on
RenameRefusedSkipped ==
  /\ i' = i + 1
  /\ pc' = "rename_loop"
  /\ UNCHANGED <<exitv, remote, renamed, n>>

\* lines 225-226: a refusal other than a collision raises
RenameRefused == Raise("remote") /\ UNCHANGED <<remote, renamed, i, n>>

\* lines 218-227: one PATCH of rename_item_with_collision_retry
RenameTry ==
  /\ pc = "rename_try"
  /\ \E st \in Statuses :
       /\ Call("rename", st)
       /\ tried' = Append(tried, [name |-> Candidate(new_name, n), status |-> st])
       /\ IF Ok(st)
          THEN /\ remote' = Renamed(remote, children[i].id, Candidate(new_name, n))
               /\ renamed' = renamed + 1
               /\ i' = i + 1
               /\ pc' = "rename_loop"
               /\ UNCHANGED <<exitv, n>>
          ELSE IF ~RetryOn(st)
          THEN RenameRefused
          ELSE IF n + 1 < max_tries
          THEN n' = n + 1 /\ UNCHANGED <<pc, exitv, remote, renamed, i>>
          ELSE Raise("collision") /\ n' = n + 1 /\ UNCHANGED <<remote, renamed, i>>
  /\ UNCHANGED <<clockv, parent, copy, pollv, acc, children, new_name, patchv, fnv>>

\* ------------------------------------------------ update_pptx_dates_in_folder

\* lines 331-332: target_label = today_slide_date(): the clock is read again
PatchBegin ==
  /\ pc = "patch_begin"
  /\ \E k \in 0..MaxDayAdvance : target_label' = TodaySlideDate(today + k)
  /\ pc' = "patch_list"
  /\ UNCHANGED <<today, new_folder_name, file_prefix, exitv, servv, pollv, acc, renv, patchv,
                 histv, fnv>>

\* line 334: items = list_children(...), one request per page
PatchList ==
  /\ pc = "patch_list"
  /\ \E st \in Statuses :
       /\ Call("patch_list", st)
       /\ IF ~Ok(st) THEN Raise("remote") /\ UNCHANGED <<acc, patchv>>
          ELSE IF HasNextLink(acc)
          THEN acc' = acc \o Page(acc) /\ UNCHANGED <<pc, exitv, patchv>>
          ELSE /\ items' = acc \o Page(acc)
               /\ acc' = <<>>
               /\ j' = 1 /\ updated' = 0
               /\ pc' = "patch_loop"
               /\ UNCHANGED <<exitv, nb, size, off, chunks, outcome, sessions>>
  /\ UNCHANGED <<clockv, servv, pollv, renv, fnv>>

PPTX == <<".", "p", "p", "t", "x">>

\* lines 336-338: the head of `for it in items` and the test of the item (the
\* locals of the calls made for the item before start afresh)
PatchLoop ==
  /\ pc = "patch_loop"
  /\ IF j > Len(items)
     THEN pc' = "mail_env" /\ UNCHANGED j
     ELSE IF items[j].kind = "file" /\ EndsWith(Lower(items[j].name), PPTX)
     THEN pc' = "download" /\ UNCHANGED j
     ELSE j' = j + 1 /\ UNCHANGED pc
  /\ nb' = NoDoc /\ size' = 0 /\ off' = 0 /\ chunks' = <<>>
  /\ UNCHANGED <<exitv, clockv, servv, pollv, acc, renv, items, updated,
                 outcome, sessions, histv, fnv>>

\* the loop goes on with the next item, having noted what became of this one
NextItem(what) ==
  /\ outcome' = Append(outcome, [id |-> items[j].id, what |-> what])
  /\ j' = j + 1
  /\ pc' = "patch_loop"
  /\ UNCHANGED exitv

\* an error of the patch of one file that leaves the function
PatchErrorPropagates == Raise("remote") /\ UNCHANGED <<outcome, j>>

\* lines 348-349: except Exception: the error is logged, the loop goes on
PatchErrorCaught == NextItem("error")

\* the bytes download_item_bytes gets for the item `id`: no file is
\* downloaded after its upload, so these are the bytes the copy gave it
ContentOf(id) == Original(id)

\* lines 340-342, 346-347: download_item_bytes and update_pptx_first_slide_date
Download ==
  /\ pc = "download"
  /\ LET b == ContentOf(items[j].id)
         r == UpdatePptxFirstSlideDate(b, target_label)
     IN \E st \in Statuses :
          /\ Call("download", st)
          /\ IF ~Ok(st) \/ ~b.parses
             THEN PatchErrorCaught /\ UNCHANGED <<nb, size>>
             ELSE IF r.changed
             THEN /\ nb' = r.bytes
                  /\ size' \in UploadSizes
                  /\ pc' = "upload_session"
                  /\ UNCHANGED <<exitv, outcome, j>>
             ELSE NextItem("unchanged") /\ UNCHANGED <<nb, size>>
  /\ UNCHANGED <<clockv, servv, pollv, acc, renv, items, updated, off, chunks, sessions, fnv>>

\* lines 343-345 after upload_item_bytes has returned (the service holds nb
\* for the item from now on, which `outcome` records)
Uploaded ==
  /\ updated' = updated + 1
  /\ NextItem("updated")

\* lines 279-285: createUploadSession and the first test of the loop
UploadSession ==
  /\ pc = "upload_session"
  /\ \E st \in Statuses :
       /\ Call("session", st)
       /\ IF ~PostOk(st)
          THEN PatchErrorCaught /\ UNCHANGED <<sessions, off, chunks, updated>>
          ELSE /\ sessions' = sessions \cup {items[j].id}
               /\ off' = 0 /\ chunks' = <<>>
               /\ IF 0 < size
                  THEN pc' = "upload_chunk" /\ UNCHANGED <<exitv, outcome, j, updated>>
                  ELSE Uploaded
  /\ UNCHANGED <<clockv, servv, pollv, acc, renv, items, nb, size, fnv>>

\* an end of chunk that is not cut at the end of the data
ChunkEndUnclamped(i0, total) == i0 + chunk

\* line 286: j = min(i + chunk, size)
ChunkEnd(i0, total) == Min2(i0 + chunk, total)

\* lines 286-294: one PUT of the loop and the next test of the loop
UploadChunk ==
  /\ pc = "upload_chunk"
  /\ LET jj == ChunkEnd(off, size) IN
     \E st \in Statuses :
       /\ Call("chunk", st)
       /\ chunks' = Append(chunks, <<off, jj - 1, size>>)
       /\ IF ~PostOk(st)
          THEN PatchErrorCaught /\ UNCHANGED <<off, updated>>
          ELSE /\ off' = jj
               /\ IF jj < size
                  THEN UNCHANGED <<pc, exitv, outcome, j, updated>>
                  ELSE Uploaded
  /\ UNCHANGED <<clockv, servv, pollv, acc, renv, items, nb, size, sessions, fnv>>

\* ------------------------------------------------------------------ the mail

\* lines 525-528: the two settings read before the mail
MailEnv ==
  /\ pc = "mail_env"
  /\ \E r \in RequireAll(MAIL_ENV) :
       IF r = "ok" THEN pc' = "get_fields" /\ UNCHANGED exitv
       ELSE Raise(r)
  /\ UNCHANGED <<clockv, servv, pollv, acc, renv, patchv, histv, fnv>>

\* lines 531-533: get_item_fields
GetFields ==
  /\ pc = "get_fields"
  /\ \E st \in Statuses :
       /\ Call("fields", st)
       /\ IF Ok(st) THEN pc' = "send_mail" /\ UNCHANGED exitv
          ELSE Raise("remote")
  /\ UNCHANGED <<clockv, servv, pollv, acc, renv, patchv, fnv>>

\* lines 574-585: send_mail_app_only, the last statement of main()
SendMail ==
  /\ pc = "send_mail"
  /\ \E st \in Statuses :
       /\ Call("mail", st)
       /\ IF PostOk(st) THEN Return ELSE Raise("remote")
  /\ UNCHANGED <<clockv, servv, pollv, acc, renv, patchv, fnv>>

Next ==
  \/ RequireEnv \/ TodayStringsStep \/ GetToken \/ ResolveSite \/ FindDrive
  \/ GetSource \/ CopyFolder \/ CopyCompletes \/ PollIteration \/ PollTimeout
  \/ ListChildren \/ RenameLoop \/ RenameTry
  \/ PatchBegin \/ PatchList \/ PatchLoop \/ Download \/ UploadSession \/ UploadChunk
  \/ MailEnv \/ GetFields \/ SendMail

Spec == Init /\ [][Next]_vars

\* ---------------------------------------- the poll on its own, with fairness

\* the state in which main() enters poll_until_child_exists
PollInit ==
  /\ pc = "poll"
  /\ today \in StartDates
  /\ parent \in Parents(today)
  /\ err = "none" /\ exitcode = -1 /\ logged = FALSE
  /\ new_folder_name = TodayStrings(today).folder
  /\ file_prefix = TodayStrings(today).file_prefix
  /\ target_label = <<>>
  /\ copy = "pending" /\ remote = <<>>
  /\ elapsed = 0 /\ new_folder_item = NoItem
  /\ acc = <<>>
  /\ children = <<>> /\ i = 0 /\ renamed = 0 /\ new_name = <<>> /\ n = 0 /\ tried = <<>>
  /\ items = <<>> /\ j = 0 /\ updated = 0 /\ nb = NoDoc /\ size = 0 /\ off = 0
  /\ chunks = <<>> /\ outcome = <<>> /\ sessions = {}
  /\ lastOp = "copy" /\ lastStatus = 200
  /\ issued = {"token", "site", "drives", "source", "copy"}
  /\ ncopy = 1 /\ nmail = 0
  /\ fin = 0 /\ fout = 0

PollNext == PollIteration \/ PollTimeout \/ CopyCompletes

\* The process keeps running: a request is answered, a sleep ends.  The
\* service need not ever finish the copy.
PollSpec == PollInit /\ [][PollNext]_vars /\ WF_vars(PollIteration \/ PollTimeout)

\* --------------------------------------------------- _next_friday on its own

FridayDates == FirstOrdinal .. (FirstOrdinal + FridaySpan - 1)

FridayInit ==
  /\ pc = "next_friday"
  /\ fin \in FridayDates /\ fout = 0
  /\ today = FirstOrdinal /\ parent = <<>>
  /\ InitProgram

\* the call _next_friday(fin)
ApplyNextFriday ==
  /\ pc = "next_friday"
  /\ fout' = NextFriday(fin)
  /\ pc' = "returned"
  /\ UNCHANGED <<fin, exitv, clockv, servv, pollv, acc, renv, patchv, histv>>

FridayNext == ApplyNextFriday

FridaySpec == FridayInit /\ [][FridayNext]_vars

\* ------------------------------------------- build_new_filename on its own

\* file names put together from white space in front, a date part, a
\* remainder and an extension; the date part may be missing
NameLeads == {<<>>, <<" ">>}
NameDates == {<<>>,
              <<"1","1"," ","A","p","r"," ","-"," ">>,
              <<"5"," ","S","e","p","t","."," ","ENDASH"," ">>,
              <<"1"," ","m","a","y","EMDASH"," "," ">>}
NameRests == {<<"A">>, <<"A"," ","-"," ","B">>, <<"A"," ">>}
NameExts == {<<>>, <<".","p","p","t","x">>}
NamePrefixes == {<<"0","3"," ","S","e","p">>, <<"2","9"," ","A","u","g">>}

\* the file name made of the parts
NameOf(parts) == parts.lead \o parts.date \o parts.rest \o parts.ext

FilenameInit ==
  /\ pc = "build_new_filename"
  /\ fin \in [lead : NameLeads, date : NameDates, rest : NameRests,
              ext : NameExts, prefix : NamePrefixes]
  /\ fout = <<>>
  /\ today = FirstOrdinal /\ parent = <<>>
  /\ InitProgram

\* the call build_new_filename(name, prefix)
BuildOnce ==
  /\ pc = "build_new_filename"
  /\ fout' = <<BuildNewFilename(NameOf(fin), fin.prefix)>>
  /\ pc' = "built_once"
  /\ UNCHANGED <<fin, exitv, clockv, servv, pollv, acc, renv, patchv, histv>>

\* the call build_new_filename(result, prefix) on the result of the first
BuildAgain ==
  /\ pc = "built_once"
  /\ fout' = Append(fout, BuildNewFilename(fout[1], fin.prefix))
  /\ pc' = "built_twice"
  /\ UNCHANGED <<fin, exitv, clockv, servv, pollv, acc, renv, patchv, histv>>

FilenameNext == BuildOnce \/ BuildAgain

FilenameSpec == FilenameInit /\ [][FilenameNext]_vars

\* --------------------------------------- replace_week_ending_text on its own

\* texts put together from what precedes the label, a lead-in, a date and
\* what follows; a text whose lead-in is none of the two has no label
TextPres == {<<>>, <<"Q","3","LF">>, <<"a"," ">>}
LabelLeads == {<<"W",".","E","."," ">>, <<"w","e",":">>,
               <<"W","e","e","k"," ","E","n","d","i","n","g"," ">>,
               <<"W","E","E","K"," "," ","E","N","D","I","N","G"," ","-"," ">>}
OtherLeads == {<<>>, <<"W",".","X","."," ">>}
TextDates == {<<"5"," ","S","e","p","t"," ","2","0","2","5">>,
              <<"1","2"," ","D","e","c","."," ","2","0","2","4">>,
              <<"1","LF","M","a","y"," ","1","9","9","9">>}
TextPosts == {<<>>, <<"LF","x">>, <<".">>}
TextLabels == {<<"1","2"," ","S","e","p","t"," ","2","0","2","5">>}

\* the text made of the parts
TextOf(parts) == parts.pre \o parts.lead \o parts.date \o parts.post

TextInit ==
  /\ pc = "replace_week_ending_text"
  /\ fin \in [pre : TextPres, lead : LabelLeads \cup OtherLeads, date : TextDates,
              post : TextPosts, label : TextLabels]
  /\ fout = <<>>
  /\ today = FirstOrdinal /\ parent = <<>>
  /\ InitProgram

\* the call replace_week_ending_text(text, new_date_label)
ReplaceText ==
  /\ pc = "replace_week_ending_text"
  /\ fout' = ReplaceWeekEndingText(TextOf(fin), fin.label)
  /\ pc' = "replaced"
  /\ UNCHANGED <<fin, exitv, clockv, servv, pollv, acc, renv, patchv, histv>>

TextNext == ReplaceText

TextSpec == TextInit /\ [][TextNext]_vars

\* ------------------------------------------------- find_drive_id on its own

MaxDrives == 2

DriveNames == {Archive, Documents, <<"d","o","c","u","m","e","n","t","s">>}
DriveTypes == {"documentLibrary", "business"}
DriveIds == <<"d1", "d2", "d3", "d4">>

\* the answers to the drives request: up to MaxDrives drives, of any of the
\* names and types, with an id of their own each
DriveSeqs ==
  UNION { { [k \in 1..len |-> Drive(DriveIds[k], f[k][1], f[k][2])] :
              f \in [1..len -> DriveNames \X DriveTypes] } : len \in 0..MaxDrives }

DriveInit ==
  /\ pc = "find_drive_id"
  /\ fin \in [drives : DriveSeqs, library : LibraryNames]
  /\ fout = <<>>
  /\ today = FirstOrdinal /\ parent = <<>>
  /\ InitProgram

\* the call find_drive_id(token, site_id, library_name), the request answered
ApplyFindDriveId ==
  /\ pc = "find_drive_id"
  /\ fout' = FindDriveId(fin.drives, fin.library)
  /\ pc' = "found"
  /\ UNCHANGED <<fin, exitv, clockv, servv, pollv, acc, renv, patchv, histv>>

DriveNext == ApplyFindDriveId

DriveSpec == DriveInit /\ [][DriveNext]_vars

\* =================================================================== claims

\* the settings main() requires
ConfigNames == Range(STARTUP_ENV) \cup Range(MAIL_ENV)

\* the remote calls whose refusal fails the run at once
FatalOps == {"site", "drives", "source", "copy", "poll", "list", "patch_list"}

\* the remote calls of the upload of one file
UploadOps == {"session", "chunk"}

\* was the last remote call refused
Refused == IF lastOp \in {"copy", "session", "chunk", "mail"}
           THEN ~(lastStatus \in {200, 201, 202})
           ELSE lastStatus >= 400

Failed == pc = "exited" /\ exitcode = 1

\* C1, as stated: a run that fails for a missing required setting, whichever
\* of the nine it is, has issued no remote call when the error is raised.
ConfigErrorBeforeAnyCall == err \in ConfigNames => issued = {}

\* C2, as stated: after a non-success answer to a call made while resolving,
\* listing, copying, polling, renaming or uploading, the run has failed and
\* issues nothing more.
NonSuccessFailsRun ==
  (lastOp \in FatalOps \cup {"rename"} \cup UploadOps /\ Refused) => Failed

\* C2, amended: a refusal while resolving, listing, copying or polling, and a
\* refusal of a rename other than a collision, fail the run at once; a
\* collision on rename fails it only when it is the max_tries-th attempt and
\* is retried otherwise; a refusal during an upload is caught for that file
\* and the run goes on to the next item.
NonSuccessFailsRunExceptRetryAndUpload ==
  /\ (lastOp \in FatalOps /\ Refused) => (Failed /\ err = "remote")
  /\ (lastOp = "rename" /\ Refused /\ lastStatus # 409) => (Failed /\ err = "remote")
  /\ (lastOp = "rename" /\ lastStatus = 409) =>
        IF Len(tried) = max_tries THEN Failed /\ err = "collision"
        ELSE pc = "rename_try" /\ n = Len(tried)
  /\ (lastOp \in UploadOps /\ Refused) =>
        /\ err \in {"none"} \cup Range(MAIL_ENV)
        /\ outcome # <<>> /\ outcome[Len(outcome)].what = "error"

\* the listing of the patch step was refused after files had been renamed
RefusedListingFailsRun ==
  /\ lastOp = "patch_list" /\ lastStatus = 500
  /\ Failed /\ renamed > 0 /\ nmail = 0

\* is the item a presentation the patch loop handles
IsPptx(it) == it.kind = "file" /\ EndsWith(Lower(it.name), PPTX)

\* the items among the first k of `items` that are presentations
PptxUpTo(k) == {m \in 1..k : m <= Len(items) /\ IsPptx(items[m])}

\* the positions of a run that has left the patch step behind
AfterPatch == {"mail_env", "get_fields", "send_mail"}

\* a step taken inside the patch of one file stays in the patch step
StaysInPatch ==
  (pc \in {"download", "upload_session", "upload_chunk"}) =>
     (pc' \in {"patch_loop", "upload_session", "upload_chunk"})

\* C3: an error while patching one presentation (download, edit, upload) ends
\* neither the run nor the loop: no step taken inside the patch of a file
\* leaves the run exited, the loop has noted an outcome for every presentation
\* it has passed, and the mail step is reached with every presentation of the
\* listing handled.
PatchErrorsTolerated ==
  /\ [](pc = "patch_loop" => Len(outcome) = Cardinality(PptxUpTo(j - 1)))
  /\ [](pc \in AfterPatch => Len(outcome) = Cardinality(PptxUpTo(Len(items))))
  /\ [][StaysInPatch]_vars

\* the patch of one file failed, the next file was patched, the mail was sent
LaterFilePatchedAfterError ==
  /\ pc = "exited" /\ exitcode = 0 /\ nmail = 1
  /\ Len(outcome) = 2
  /\ outcome[1].what = "error" /\ outcome[2].what = "updated"

\* the name the k-th attempt of a rename is to carry: the requested name,
\* then " (k-1)" put before the extension
ExpectedCandidate(k) ==
  IF k = 1 THEN new_name
  ELSE SplitExt(new_name).base \o <<" ", "(", DIGITS[k], ")">> \o SplitExt(new_name).ext

\* C4: the attempts of one rename, in order: the first carries the requested
\* name, the k-th carries the suffix " (k-1)" before the extension, each but
\* the last was answered 409, there are at most max_tries of them, and the
\* operation ends in the collision error exactly when max_tries attempts were
\* all answered 409.
RenameRetriesSuffixed ==
  /\ Len(tried) <= max_tries
  /\ \A k \in DOMAIN tried :
       /\ tried[k].name = ExpectedCandidate(k)
       /\ k < Len(tried) => tried[k].status = 409
  /\ err = "collision" <=>
       (Len(tried) = max_tries /\ \A k \in DOMAIN tried : tried[k].status = 409)
  /\ err = "collision" => Failed

\* every one of the max_tries attempts collided
AllAttemptsCollided ==
  /\ err = "collision" /\ Len(tried) = max_tries
  /\ tried[1].name = new_name
  /\ tried[max_tries].name # new_name
  /\ tried[max_tries].status = 409

\* does the parent hold a child named like the new folder
ChildPresent == \E k \in DOMAIN parent : parent[k].name = new_folder_name

\* does a poll see one: is it among the children of the first page
ChildSeen ==
  \E k \in DOMAIN parent : k <= ParentPage /\ parent[k].name = new_folder_name

\* a step of the poll: a timeout is raised only after timeout_s of waiting,
\* a poll that does not return found no child of that name and is followed by
\* a sleep of poll_s, a return hands out a child of the parent with that name
PollStep ==
  /\ (err' = "timeout" /\ err # "timeout") =>
        (elapsed >= timeout_s /\ new_folder_item' = NoItem)
  /\ (pc = "poll" /\ pc' = "poll" /\ elapsed' # elapsed) =>
        (~ChildSeen /\ elapsed' >= elapsed + poll_s)
  /\ (pc = "poll" /\ pc' = "list_children") =>
        /\ new_folder_item'.name = new_folder_name
        /\ \E k \in DOMAIN parent : parent[k] = new_folder_item'

\* C5: poll_until_child_exists terminates; it polls poll_s apart, returns a
\* child as soon as a poll sees one with the name of the new folder, raises
\* the timeout only after timeout_s without one, never waits past the bound
\* and never returns anything but a child with that name.
PollTerminates ==
  /\ <>(pc # "poll")
  /\ [](pc = "poll" => elapsed < timeout_s + poll_s + MaxLatency)
  /\ [](new_folder_item # NoItem => new_folder_item.name = new_folder_name)
  /\ [][PollStep]_vars

\* the wait ran out: the copy never showed and the timeout was raised
PollTimedOut == pc = "exited" /\ err = "timeout" /\ ~ChildPresent /\ lastOp = "poll"

\* the step a remote call belongs to
OpRank(op) ==
  CASE op \in {"none", "token", "site", "drives", "source"} -> 0
    [] op = "copy" -> 1
    [] op = "poll" -> 2
    [] op = "list" -> 3
    [] op = "rename" -> 4
    [] op \in {"patch_list", "download", "session", "chunk"} -> 5
    [] op \in {"fields", "mail"} -> 6

\* the files of the listing whose name the run has to change
NeedRename ==
  {k \in DOMAIN children :
     /\ children[k].kind = "file"
     /\ BuildNewFilename(children[k].name, file_prefix) # children[k].name}

\* what has been completed when a step has begun
StepsComplete ==
  /\ ncopy <= 1 /\ nmail <= 1
  /\ (\E op \in issued : OpRank(op) >= 2) => (ncopy = 1 /\ copy # "none")
  /\ "list" \in issued => ("poll" \in issued /\ new_folder_item # NoItem)
  /\ "rename" \in issued => "list" \in issued
  /\ "patch_list" \in issued => ("list" \in issued /\ i = Len(children) + 1)
  /\ "fields" \in issued =>
        /\ "patch_list" \in issued
        /\ j = Len(items) + 1
        /\ Len(outcome) = Cardinality(PptxUpTo(Len(items)))
  /\ nmail = 1 =>
        /\ "fields" \in issued
        /\ renamed = Cardinality(NeedRename)
        /\ err \in {"none", "remote"}

\* the remote calls never go back to an earlier step
StepForward == OpRank(lastOp') >= OpRank(lastOp)

\* C6: the remote calls of a run go copy, poll, list, rename, patch, mail and
\* never back; a step begins only when the one before is complete; the copy
\* is requested once, never twice, and the mail at most once, only after
\* every file that needed a new name got one and the patch loop has ended.
StepsInOrder == []StepsComplete /\ [][StepForward]_vars

\* a run in which every step did something
EveryStepDone ==
  /\ exitcode = 0 /\ nmail = 1 /\ ncopy = 1
  /\ renamed > 0 /\ updated > 0
  /\ issued = {"token", "site", "drives", "source", "copy", "poll", "list", "rename",
               "patch_list", "download", "session", "chunk", "fields", "mail"}

\* C7, as stated: the status is zero only when the run fully succeeded, so
\* not when the patch of a presentation failed.
ExitZeroOnlyOnFullSuccess ==
  exitcode = 0 => \A k \in DOMAIN outcome : outcome[k].what # "error"

\* C7, amended: the status is zero exactly when main() returned, which it
\* does once the mail was accepted, whether or not the patch of some
\* presentation failed and was logged; any error that leaves main() is logged
\* and gives the status 1.
ExitStatusReflectsMain ==
  /\ pc = "exited" <=> exitcode \in {0, 1}
  /\ exitcode = 0 <=> (pc = "exited" /\ err = "none")
  /\ exitcode = 0 => (nmail = 1 /\ lastOp = "mail" /\ lastStatus \in {200, 201, 202})
  /\ err # "none" => (pc = "exited" /\ exitcode = 1 /\ logged)
  /\ (lastOp \in FatalOps \cup {"token", "fields", "mail"} /\ Refused) => exitcode = 1
  /\ err \in {"none", "remote", "token", "timeout", "collision", "drive_not_found",
              "not_folder"} \cup ConfigNames

\* the status is zero although the patch of a presentation failed
ExitZeroWithPatchError ==
  /\ pc = "exited" /\ exitcode = 0
  /\ \E k \in DOMAIN outcome : outcome[k].what = "error"

\* the files of the catalogue whose first slide carries a week-ending label
MatchingIds == {"f1", "f7"}

\* C8: an upload session is created only for a file whose first slide holds
\* a matching label; a presentation without one (or without slides) comes
\* back from update_pptx_first_slide_date byte-identical with changed = false
\* and is noted unchanged; the count returned is the number of files uploaded.
OnlyMatchingFilesUploaded ==
  /\ sessions \subseteq MatchingIds
  /\ updated = Cardinality({k \in DOMAIN outcome : outcome[k].what = "updated"})
  /\ \A k \in DOMAIN outcome :
       /\ outcome[k].what = "updated" => outcome[k].id \in sessions
       /\ outcome[k].what = "unchanged" => outcome[k].id \notin sessions
  /\ pc = "patch_list" =>
       \A id \in {"f2", "f6", "f8"} :
          UpdatePptxFirstSlideDate(Original(id), target_label) =
             [bytes |-> Original(id), changed |-> FALSE]
  /\ pc \in AfterPatch =>
       \A k \in DOMAIN items :
          (IsPptx(items[k]) /\ items[k].id \notin MatchingIds) =>
             items[k].id \notin sessions

\* a file without a label was left alone and the next one was uploaded
UnchangedFileNotUploaded ==
  /\ pc \in AfterPatch
  /\ \E k \in DOMAIN outcome : outcome[k].what = "unchanged" /\ outcome[k].id \notin sessions
  /\ updated = 1 /\ Cardinality(sessions) = 1

\* C9: the result of _next_friday is a Friday, 1 to 7 days after the input,
\* and 7 days after it when the input is a Friday.
NextFridayIsLaterFriday ==
  pc = "returned" =>
    /\ Weekday(fout) = 4
    /\ fout > fin /\ fout - fin \in 1..7
    /\ Weekday(fin) = 4 => fout = fin + 7

\* _next_friday was applied to a Friday
FridayGivesNextWeek == pc = "returned" /\ Weekday(fin) = 4 /\ fout = fin + 7

\* C10, as stated: the folder name ("W.E. Mon DD YYYY"), the prefix
\* ("DD Mon") and the slide label ("DD Mon YYYY") of a run show the same day,
\* month and year.
LabelsDenoteSameDay ==
  target_label # <<>> =>
    /\ SubSeq(new_folder_name, 10, 11) = SubSeq(file_prefix, 1, 2)
    /\ SubSeq(new_folder_name, 6, 8) = SubSeq(file_prefix, 4, 6)
    /\ SubSeq(target_label, 1, 2) = SubSeq(file_prefix, 1, 2)
    /\ SubSeq(target_label, 4, 6) = SubSeq(file_prefix, 4, 6)
    /\ SubSeq(target_label, Len(target_label) - 3, Len(target_label)) =
         SubSeq(new_folder_name, 13, 16)

\* C11, as stated: build_new_filename applied to its own result, with the
\* same prefix, gives that result again, whatever the name.
BuildIsIdempotent == pc = "built_twice" => fout[2] = fout[1]

\* C12, as stated: a name "<day> <month> <dash> <rest><ext>" becomes
\* "<prefix> - <rest><ext>" with the remainder and the extension as they
\* were; a name without a date part becomes "<prefix> - <name>".
BuildKeepsRestAndExt ==
  (pc = "built_once" /\ fin.lead = <<>>) =>
     fout[1] = fin.prefix \o <<" ", "-", " ">> \o
               (IF fin.date = <<>> THEN NameOf(fin) ELSE fin.rest \o fin.ext)

\* C13: on a text with a "W.E." or "Week Ending" label the date alone is
\* replaced by the new label, the lead-in and all that precedes and follows
\* staying as they were, and changed is true; a text without a label comes
\* back as it was, with changed false.
OnlyDateSpanReplaced ==
  pc = "replaced" =>
    IF fin.lead \in LabelLeads
    THEN fout = [text |-> fin.pre \o fin.lead \o fin.label \o fin.post, changed |-> TRUE]
    ELSE fout = [text |-> TextOf(fin), changed |-> FALSE]

\* a "Week Ending" label between two line breaks was replaced
LabelBetweenLinesReplaced ==
  /\ pc = "replaced" /\ fout.changed
  /\ fin.pre = <<"Q","3","LF">> /\ fin.post = <<"LF","x">>
  /\ fin.lead = <<"W","e","e","k"," ","E","n","d","i","n","g"," ">>

\* the files of the new folder that carry a new name by now
RenamedSoFar ==
  {k \in DOMAIN children : k <= Len(remote) /\ remote[k].name # children[k].name}

\* does the parent hold the folder the copy made
CopyExists == \E k \in DOMAIN parent : parent[k].id = "new"

\* a step undoes nothing: a file that carries its new name keeps it and the
\* folder the copy made stays
NothingUndone ==
  /\ \A k \in RenamedSoFar : k <= Len(remote') /\ remote'[k] = remote[k]
  /\ CopyExists => CopyExists'

\* C14: no write is rolled back: the files renamed so far stay renamed and
\* the copied folder stays through every later step, a failure included, so
\* that a failed run leaves the folder with as many files renamed as renames
\* had succeeded.
WritesNotRolledBack ==
  /\ [](Cardinality(RenamedSoFar) = renamed)
  /\ [][NothingUndone]_vars

\* the run failed on the second rename: the copy exists, one file is
\* renamed and another that needed a new name is not
FailedWithPartialRename ==
  /\ Failed /\ CopyExists /\ lastOp = "rename"
  /\ renamed >= 1
  /\ \E k \in NeedRename : remote[k].name = children[k].name

\* the positions inside the patch of one file
InPatchOfFile == {"download", "upload_session", "upload_chunk"}

\* C15: nothing but the poll and the rename after a collision is tried
\* again: a refused request of any other kind ends the run, or the patch of
\* that one file, for good; a rename is attempted again only after a 409; a
\* rename refused otherwise fails the run at once; a rename that succeeded
\* ends the loop and the file carries the name of that attempt.
NoReissueButPollAndCollision ==
  /\ (lastOp \in FatalOps \cup {"token", "fields", "mail"} /\ Refused) => pc = "exited"
  /\ (pc = "rename_try" /\ tried # <<>>) => tried[Len(tried)].status = 409
  /\ (tried # <<>> /\ ~Ok(tried[Len(tried)].status) /\ tried[Len(tried)].status # 409) =>
        (Failed /\ err = "remote")
  /\ (tried # <<>> /\ Ok(tried[Len(tried)].status)) =>
        /\ pc = "rename_loop"
        /\ remote[i - 1].name = tried[Len(tried)].name
        /\ i - 1 \in RenamedSoFar
  /\ pc \in InPatchOfFile => \A k \in DOMAIN outcome : outcome[k].id # items[j].id
  /\ (lastOp \in {"download", "session", "chunk"} /\ Refused) =>
        (outcome # <<>> /\ outcome[Len(outcome)].what = "error")

\* after one collision the second attempt was refused with another status
\* and the run failed without a third attempt
RenameAbortedAfterRefusal ==
  /\ Failed /\ err = "remote" /\ lastOp = "rename"
  /\ Len(tried) = 2 /\ tried[1].status = 409 /\ tried[2].status = 500

\* the drives of the answer that carry the configured name exactly; those
\* named "documents" in any case; those of document-library type
ExactDrives == {k \in DOMAIN fin.drives : fin.drives[k].name = fin.library}
AliasDrives ==
  {k \in DOMAIN fin.drives :
     Lower(fin.drives[k].name) = <<"d","o","c","u","m","e","n","t","s">>}
LibraryDrives == {k \in DOMAIN fin.drives : fin.drives[k].driveType = "documentLibrary"}

\* is the configured name "shared documents", white space and case aside
AliasApplies ==
  Lower(Strip(fin.library)) =
     <<"s","h","a","r","e","d"," ","d","o","c","u","m","e","n","t","s">>

\* the id of the first of the drives whose index is in S
FirstId(S) == fin.drives[CHOOSE k \in S : \A m \in S : k <= m].id

\* C16: find_drive_id returns the first drive with the configured name if
\* there is one; else, the name being "shared documents", the first drive
\* named "documents"; else the first drive of document-library type; and
\* raises only when there is none of these.
DriveChosenByPriority ==
  pc = "found" =>
    /\ ExactDrives # {} => fout = FirstId(ExactDrives)
    /\ (ExactDrives = {} /\ AliasApplies /\ AliasDrives # {}) => fout = FirstId(AliasDrives)
    /\ (ExactDrives = {} /\ ~(AliasApplies /\ AliasDrives # {}) /\ LibraryDrives # {}) =>
          fout = FirstId(LibraryDrives)
    /\ fout = "none" <=>
          (ExactDrives = {} /\ ~(AliasApplies /\ AliasDrives # {}) /\ LibraryDrives = {})

\* the second drive has the configured name and wins over a first drive that
\* is a document library of another name
ExactNameBeatsLibraryType ==
  /\ pc = "found" /\ fout = "d2"
  /\ ExactDrives = {2} /\ 1 \in LibraryDrives

\* the positions of the rename phase and the one that follows it
RenamePhase == {"rename_loop", "rename_try", "patch_begin"}

\* the loop goes through the children once, forwards
OneChildAfterAnother ==
  /\ i' >= i
  /\ (pc = "rename_try" /\ pc' = "rename_loop") => i' = i + 1
  /\ (pc = "rename_loop" /\ pc' = "rename_try") => (i' = i /\ i \notin RenamedSoFar)

\* C17: a rename is requested only for a child that is a file and whose
\* computed name differs from the one it has; folders keep their names; the
\* loop passes each child once, so no file is submitted twice; the count
\* reported is the number of files that carry a new name.
RenameOnlyFilesThatDiffer ==
  /\ [](pc = "rename_try" =>
          /\ children[i].kind = "file"
          /\ new_name = BuildNewFilename(children[i].name, file_prefix)
          /\ new_name # children[i].name)
  /\ [](\A k \in DOMAIN children :
          (children[k].kind = "folder" /\ k <= Len(remote)) => remote[k] = children[k])
  /\ [](pc \in RenamePhase =>
          /\ RenamedSoFar \subseteq NeedRename
          /\ RenamedSoFar \subseteq 1..(i - 1)
          /\ renamed = Cardinality(RenamedSoFar))
  /\ [][OneChildAfterAnother]_vars

\* the loop has ended: one file was renamed, a folder was passed over
FolderPassedOver ==
  /\ pc = "patch_begin" /\ renamed = 1
  /\ \E k \in DOMAIN children : children[k].kind = "folder" /\ remote[k] = children[k]

\* 5 MiB
FiveMiB == 5 * 1024 * 1024

\* what became of the file the last upload was for
LastOutcome == outcome[Len(outcome)].what

\* C18: the chunks sent for one file, in order: the first starts at 0, each
\* starts where the one before ended, none is longer than 5 MiB, each
\* declares its range i..j-1 and the total size; a further chunk is sent only
\* after the one before was accepted, and the upload is complete exactly when
\* the last chunk, accepted, ends at size-1.
ChunksPartitionContent ==
  /\ \A k \in DOMAIN chunks :
       /\ chunks[k][1] = (IF k = 1 THEN 0 ELSE chunks[k - 1][2] + 1)
       /\ chunks[k][1] <= chunks[k][2]
       /\ chunks[k][2] - chunks[k][1] + 1 <= FiveMiB
       /\ chunks[k][2] <= size - 1
       /\ chunks[k][3] = size
  /\ (pc = "upload_chunk" /\ chunks # <<>>) =>
       /\ lastOp = "chunk" /\ ~Refused
       /\ off = chunks[Len(chunks)][2] + 1 /\ off < size
  /\ (pc = "patch_loop" /\ chunks # <<>>) =>
       /\ lastOp = "chunk"
       /\ LastOutcome = (IF Refused THEN "error" ELSE "updated")
       /\ LastOutcome = "updated" => chunks[Len(chunks)][2] = size - 1

\* a content of more than one chunk went up whole
TwoChunksUploaded ==
  /\ pc = "patch_loop" /\ Len(chunks) = 2 /\ LastOutcome = "updated"
  /\ chunks[2][1] = FiveMiB /\ chunks[2][2] = size - 1

\* C19, as stated: the folder the run works on, once the poll has returned
\* one, is the folder its copy request made.
WorksOnOwnCopy == new_folder_item # NoItem => new_folder_item.id = "new"

\* C20, as stated: once the copied folder is a child of the parent, the wait
\* not being over, the poll returns it (unless a request is refused),
\* wherever in the listing the folder is.
CopyShownIsReturned ==
  (pc = "poll" /\ CopyExists /\ elapsed < timeout_s) ~>
     (new_folder_item # NoItem \/ err = "remote")

====
